---- MODULE Spec2Model ----
(***************************************************************************)
(* In-memory order store (InMemoryService): idempotent Create under a     *)
(* fast-path / slow-path RWMutex protocol, Get, List, the UpdatedStatus    *)
(* stub, and the soft Delete the OrderService interface declares.          *)
(***************************************************************************)
EXTENDS Integers, Sequences, FiniteSets, TLC

\* ---------------------------------------------------------------- bounds
NumProcs == 2
MaxIDs == 2
MaxClock == 2
MaxHops == 5

Procs == 1..NumProcs
IDs == 1..MaxIDs
NoProc == 0

\* ------------------------------------------------------- model.go values
StatusPending == "PENDING"
StatusConfirmed == "CONFIRMED"
StatusShipped == "SHIPPED"
StatusDelivered == "DELIVERED"
StatusCanceled == "CANCELED"

ErrNone == "nil"
ErrNotFound == "not found"
ErrConflict == "conflict"
ErrInvalidInput == "invalid input"
ErrInvalidState == "invalid state"
ErrIdempotency == "idempotency error"

\* A nil pointer is the empty sequence, a pointer to v is <<v>>.
Nil == <<>>
Ptr(v) == <<v>>
\* A map[string]string: nil, or a function from keys to values.
NilMap == [isNil |-> TRUE, kv |-> <<>>]
MapOf(f) == [isNil |-> FALSE, kv |-> f]
\* time.Time{} ; the clock runs from 1.
ZeroTime == 0
\* The empty string as an order id.
NoID == 0

OrderLine(q, price, lt) ==
    [productId |-> "p1", quantity |-> q, unitPriceCents |-> price, lineTotalCents |-> lt]

\* Order{}
ZeroOrder ==
    [id |-> NoID, customerId |-> "", currency |-> "", lines |-> <<>>,
     attributes |-> NilMap, totalCents |-> 0, status |-> "", version |-> 0,
     createdAt |-> ZeroTime, updatedAt |-> ZeroTime, deletedAt |-> Nil]

\* ListResult[Order]{}
ZeroList == [Items |-> <<>>, Page |-> 0, PageSize |-> 0, TotalItems |-> 0, TotalPages |-> 0]

\* ListOptions{}
ZeroOpts ==
    [Status |-> Nil, CustomerID |-> Nil, CreateFrom |-> Nil, CreateTo |-> Nil,
     Page |-> 0, PageSize |-> 0]

\* ---------------------------------------------------------------- inputs
\* The order skeleton a caller passes to Create: the fields Create reads,
\* and the totals a caller may have filled in.
Skel(c, cur, ls, attrs, t) ==
    [ZeroOrder EXCEPT !.customerId = c, !.currency = cur, !.lines = ls,
                      !.attributes = attrs, !.totalCents = t]

SkelA == Skel("c1", "USD", <<OrderLine(2, 5, 7)>>, NilMap, 99)
SkelB == Skel("c2", "USD", <<OrderLine(1, 3, 0), OrderLine(2, 5, 0)>>, MapOf([a |-> "x"]), 0)
SkelNoCustomer == Skel("", "USD", <<OrderLine(2, 5, 7)>>, NilMap, 0)
SkelNoCurrency == Skel("c1", "", <<OrderLine(2, 5, 7)>>, NilMap, 0)
SkelNoLines == Skel("c1", "USD", <<>>, NilMap, 0)
SkelZeroQty == Skel("c1", "USD", <<OrderLine(0, 5, 0)>>, NilMap, 0)
SkelBadPrice == Skel("c1", "USD", <<OrderLine(1, 3, 3), OrderLine(1, -1, -1)>>, NilMap, 2)

Keys == {"", "k1"}

\* ctx.Err(): nil for a live context, else Canceled or DeadlineExceeded.
Live == "live"
Canceled == "context canceled"
DeadlineExceeded == "context deadline exceeded"

Statuses == {StatusPending, StatusConfirmed, StatusShipped, StatusDelivered, StatusCanceled}

Opts(c, pg, ps) == [ZeroOpts EXCEPT !.CustomerID = c, !.Page = pg, !.PageSize = ps]

\* The inputs concurrent callers draw from.
Skeletons == {SkelA, SkelB, SkelBadPrice}
CtxStates == {Live, Canceled}
StatusInputs == {StatusConfirmed}
VersionInputs == {Nil}
ListInputs == {Opts(Nil, 0, 0), Opts(Nil, 2, 1)}

\* The inputs a single caller draws from.
SeqSkeletons ==
    {SkelB, SkelNoCustomer, SkelNoCurrency, SkelNoLines, SkelZeroQty, SkelBadPrice}
SeqCtxStates == {Live, Canceled, DeadlineExceeded}
SeqStatusInputs == Statuses \cup {"BOGUS"}
SeqVersionInputs == {Nil, Ptr(1), Ptr(2)}
SeqListInputs ==
    { Opts(c, pg, ps) : c \in {Nil, Ptr("c1")}, pg \in {0, 2, 3}, ps \in {-1, 1, 2} }
\* The filters a single caller passes to List, with the default page.
FilterInputs ==
    { [ZeroOpts EXCEPT !.Status = st, !.CustomerID = c, !.CreateFrom = from, !.CreateTo = to] :
        st \in {Nil, Ptr(StatusPending), Ptr(StatusConfirmed)}, c \in {Nil, Ptr("c2")},
        from \in {Nil, Ptr(2)}, to \in {Nil, Ptr(1), Ptr(2)} }

\* ----------------------------------------------------------------- state
VARIABLES
    orders,     \* s.orders: order id -> Order
    idempo,     \* s.idempo: idempotency key -> order id
    readers,    \* callers holding s.mu in shared mode
    writer,     \* the caller holding s.mu exclusively, or NoProc
    now,        \* the wall clock time.Now() reads
    pc,         \* where each caller stands in Create
    call,       \* each caller's Create arguments and locals
    ret,        \* the result a returning call hands to its caller, or NoRet
    fresh,      \* key -> number of Create calls that returned reused=false
    results,    \* key -> contents of the orders Create returned for it
    storedFor,  \* key -> ids Create inserted into s.orders for it
    tomb,       \* ids Delete has succeeded on
    alias,      \* order id -> the allocations the stored order points to
    walk        \* a status pair put to isTransitionAllowed, and the answer

store == <<orders, idempo>>
mu == <<readers, writer>>
history == <<fresh, results, storedFor, tomb, alias, walk>>
vars == <<orders, idempo, readers, writer, now, pc, call, ret, fresh, results, storedFor, tomb,
          alias, walk>>

IdleCall ==
    [o |-> ZeroOrder, key |-> "", newOrder |-> ZeroOrder, locks |-> {},
     id |-> NoID, includeDeleted |-> FALSE]

\* The record of a returned call.
Ret(p, op, ctx, args, locks, order, reused, err, list) ==
    [op |-> op, ctx |-> ctx,
     o |-> args.o, key |-> args.key, id |-> args.id,
     includeDeleted |-> args.includeDeleted, newStatus |-> args.newStatus,
     expectedVersion |-> args.expectedVersion, opts |-> args.opts,
     locks |-> locks, order |-> order, reused |-> reused, err |-> err, list |-> list]

NoArgs ==
    [o |-> ZeroOrder, key |-> "", id |-> NoID, includeDeleted |-> FALSE,
     newStatus |-> "", expectedVersion |-> Nil, opts |-> ZeroOpts]

\* No result is being handed over.
NoRet == Ret(NoProc, "none", Live, NoArgs, {}, ZeroOrder, FALSE, ErrNone, ZeroList)

\* ---------------------------------------------------------------- helpers
ctxErr(ctx) == IF ctx = Live THEN ErrNone ELSE ctx

cloneMap(m) == IF m.isNil THEN NilMap ELSE MapOf([k \in DOMAIN m.kv |-> m.kv[k]])

cloneOrder(o) ==
    [id |-> o.id, customerId |-> o.customerId, currency |-> o.currency,
     lines |-> [i \in 1..Len(o.lines) |-> o.lines[i]],
     attributes |-> cloneMap(o.attributes), totalCents |-> o.totalCents,
     status |-> o.status, version |-> o.version, createdAt |-> o.createdAt,
     updatedAt |-> o.updatedAt,
     deletedAt |-> IF o.deletedAt # Nil THEN Ptr(o.deletedAt[1]) ELSE Nil]

\* newID(): a random token; the ids of stored orders and of candidates in
\* flight are taken.
TakenIDs == DOMAIN orders \cup {call[p].newOrder.id : p \in Procs}
newID == IDs \ TakenIDs

\* A way back from SHIPPED to CONFIRMED let through.
isTransitionAllowedBack(from, to) ==
    CASE from = StatusPending -> to = StatusConfirmed \/ to = StatusCanceled
      [] from = StatusConfirmed -> to = StatusShipped \/ to = StatusCanceled
      [] from = StatusShipped -> to = StatusDelivered \/ to = StatusConfirmed
      [] OTHER -> FALSE

isTransitionAllowed(from, to) ==
    CASE from = StatusPending -> to = StatusConfirmed \/ to = StatusCanceled
      [] from = StatusConfirmed -> to = StatusShipped \/ to = StatusCanceled
      [] from = StatusShipped -> to = StatusDelivered
      [] OTHER -> FALSE

isValidStatus(s) ==
    s \in {StatusPending, StatusConfirmed, StatusShipped, StatusDelivered, StatusCanceled}

Put(f, k, v) == [x \in DOMAIN f \cup {k} |-> IF x = k THEN v ELSE f[x]]

\* ------------------------------------------------------------ allocations
\* A slice, a map and a *time.Time are references.  An allocation is named
\* by the statement that made it, with the order it was made for; two
\* allocations with different names are different objects.  NilRef is nil.
NilRef == <<"nil", NoID>>
Refs(lines, attrs, del) == [lines |-> lines, attrs |-> attrs, del |-> del]
RefSet(r) == {r.lines, r.attrs, r.del} \ {NilRef}

\* What the skeleton a caller passes to Create points to: the caller's own
\* slice and map.
SkelRefs(o) ==
    Refs(IF Len(o.lines) = 0 THEN NilRef ELSE <<"caller.Lines", NoID>>,
         IF o.attributes.isNil THEN NilRef ELSE <<"caller.Attributes", NoID>>,
         NilRef)

\* Line 251: cloneMap returns nil for nil, else a map made at the call.
cloneMapRef(m, site, id) == IF m = NilRef THEN NilRef ELSE <<site, id>>

\* The references copied instead of what they point to.
cloneOrderRefsShallow(r, id) == r

\* Lines 224-231: cloneOrder makes a slice, a map unless the order has
\* none, and a time unless DeletedAt is nil.
cloneOrderRefs(r, id) ==
    Refs(<<"cloneOrder.lines", id>>,
         cloneMapRef(r.attrs, "cloneOrder.attrs", id),
         IF r.del # NilRef THEN <<"cloneOrder.del", id>> ELSE NilRef)

\* Lines 67-68: Create makes the candidate's slice and clones the map.
NewOrderRefs(skel, id) ==
    Refs(<<"Create.Lines", id>>, cloneMapRef(skel.attrs, "Create.Attributes", id), NilRef)

\* No status pair has been put to isTransitionAllowed.
NoWalk == [from |-> "", to |-> "", asked |-> FALSE, allowed |-> FALSE, hops |-> 0]


\* ----------------------------------------------------------------- Create
\* The shared-lock check left out.
FastHitSkipped(idx, key) == FALSE

\* Line 43: the key is in the index (shared-lock check).
FastHit(idx, key) == key \in DOMAIN idx

\* The re-check left out.
SlowHitSkipped(idx, key) == FALSE

\* Lines 93-94: the re-check under the exclusive lock.
SlowHit(idx, key) == key # "" /\ key \in DOMAIN idx

\* The existing order returned as a new one.
ResolveNotReused(ords, idx, key) ==
    IF idx[key] \in DOMAIN ords
    THEN [order |-> cloneOrder(ords[idx[key]]), reused |-> FALSE, err |-> ErrNone]
    ELSE [order |-> ZeroOrder, reused |-> FALSE, err |-> ErrIdempotency]

\* A deleted order taken for a missing one.
ResolveHidesDeleted(ords, idx, key) ==
    IF idx[key] \in DOMAIN ords /\ ords[idx[key]].deletedAt = Nil
    THEN [order |-> cloneOrder(ords[idx[key]]), reused |-> TRUE, err |-> ErrNone]
    ELSE [order |-> ZeroOrder, reused |-> FALSE, err |-> ErrIdempotency]

\* Lines 44-51 and 95-99: resolve an indexed key to its order.
Resolve(ords, idx, key) ==
    IF idx[key] \in DOMAIN ords
    THEN [order |-> cloneOrder(ords[idx[key]]), reused |-> TRUE, err |-> ErrNone]
    ELSE [order |-> ZeroOrder, reused |-> FALSE, err |-> ErrIdempotency]

\* Line 57.
headerValid(o) == ~(o.customerId = "" \/ o.currency = "" \/ Len(o.lines) = 0)

\* A zero quantity let through.
lineValidZeroQty(line) == ~(line.quantity < 0 \/ line.unitPriceCents < 0)

\* Line 78.
lineValid(line) == ~(line.quantity <= 0 \/ line.unitPriceCents < 0)

\* The caller's line total kept.
lineTotalFromInput(line) == line.lineTotalCents

\* Line 81.
lineTotal(line) == line.quantity * line.unitPriceCents

\* Lines 75-85: the loop over o.Lines, from index i with the lines and the
\* total built so far.
RECURSIVE BuildLines(_, _, _, _)
BuildLines(src, i, acc, total) ==
    IF i > Len(src) THEN [ok |-> TRUE, lines |-> acc, total |-> total]
    ELSE IF ~lineValid(src[i]) THEN [ok |-> FALSE, lines |-> acc, total |-> total]
    ELSE LET line == [src[i] EXCEPT !.lineTotalCents = lineTotal(src[i])]
         IN  BuildLines(src, i + 1, Append(acc, line), total + line.lineTotalCents)

\* The candidate given version 0.
NewOrderVersionZero(o, id, t, built) ==
    [id |-> id, customerId |-> o.customerId, currency |-> o.currency,
     lines |-> built.lines, attributes |-> cloneMap(o.attributes),
     totalCents |-> built.total, status |-> StatusPending, version |-> 0,
     createdAt |-> t, updatedAt |-> t, deletedAt |-> Nil]

\* Lines 62-73 and 86: the candidate order.
NewOrder(o, id, t, built) ==
    [id |-> id, customerId |-> o.customerId, currency |-> o.currency,
     lines |-> built.lines, attributes |-> cloneMap(o.attributes),
     totalCents |-> built.total, status |-> StatusPending, version |-> 1,
     createdAt |-> t, updatedAt |-> t, deletedAt |-> Nil]

\* What the idempotency property compares of a returned order.
Content(o) ==
    [id |-> o.id, lines |-> o.lines, totalCents |-> o.totalCents,
     status |-> o.status, version |-> o.version]

CreateArgs(p) == [NoArgs EXCEPT !.o = call[p].o, !.key = call[p].key]

\* A Create call returns r = [order, reused, err].
CreateReturn(p, r) ==
    /\ ret' = Ret(p, "Create", Live, CreateArgs(p), call[p].locks,
                  r.order, r.reused, r.err, ZeroList)
    /\ pc' = [pc EXCEPT ![p] = "idle"]
    /\ call' = [call EXCEPT ![p] = IdleCall]
    /\ LET k == call[p].key
       IN  /\ fresh' = IF r.err = ErrNone /\ ~r.reused /\ k # ""
                       THEN [fresh EXCEPT ![k] = @ + 1] ELSE fresh
           /\ results' = IF r.err = ErrNone /\ k # ""
                         THEN [results EXCEPT ![k] = @ \cup {Content(r.order)}]
                         ELSE results

\* Lines 36-38.
CreateCancelled(p, ctx) ==
    /\ ret = NoRet
    /\ pc[p] = "idle"
    /\ ctxErr(ctx) # ErrNone
    /\ ret' = Ret(p, "Create", ctx, NoArgs, {}, ZeroOrder, FALSE, ctxErr(ctx), ZeroList)
    /\ UNCHANGED <<store, mu, now, pc, call, history>>

\* Lines 36-41: a live context; with a key the caller goes for the shared lock.
CreateStart(p, o, key, ctx) ==
    /\ ret = NoRet
    /\ pc[p] = "idle"
    /\ ctxErr(ctx) = ErrNone
    /\ call' = [call EXCEPT ![p] = [IdleCall EXCEPT !.o = o, !.key = key]]
    /\ pc' = [pc EXCEPT ![p] = IF key # "" THEN "fastLock" ELSE "validate"]
    /\ ret' = NoRet
    /\ UNCHANGED <<store, mu, now, history>>

\* Line 42: s.mu.RLock().
CreateRLock(p) ==
    /\ ret = NoRet
    /\ pc[p] = "fastLock"
    /\ writer = NoProc
    /\ readers' = readers \cup {p}
    /\ call' = [call EXCEPT ![p].locks = @ \cup {"R"}]
    /\ pc' = [pc EXCEPT ![p] = "fastPath"]
    /\ ret' = NoRet
    /\ UNCHANGED <<store, writer, now, history>>

\* Lines 43-51: the key is indexed; unlock and return the existing order.
CreateFastHit(p) ==
    /\ ret = NoRet
    /\ pc[p] = "fastPath"
    /\ FastHit(idempo, call[p].key)
    /\ readers' = readers \ {p}
    /\ CreateReturn(p, Resolve(orders, idempo, call[p].key))
    /\ UNCHANGED <<store, writer, now, storedFor, tomb, alias, walk>>

\* The shared lock kept after a miss.
CreateFastMissHeld(p) ==
    /\ ret = NoRet
    /\ pc[p] = "fastPath"
    /\ ~FastHit(idempo, call[p].key)
    /\ pc' = [pc EXCEPT ![p] = "validate"]
    /\ ret' = NoRet
    /\ UNCHANGED <<store, mu, now, call, history>>

\* Lines 43, 53: no entry; unlock and go on to validation.
CreateFastMiss(p) ==
    /\ ret = NoRet
    /\ pc[p] = "fastPath"
    /\ ~FastHit(idempo, call[p].key)
    /\ readers' = readers \ {p}
    /\ pc' = [pc EXCEPT ![p] = "validate"]
    /\ ret' = NoRet
    /\ UNCHANGED <<store, writer, now, call, history>>

\* Lines 57-59 and 78-80: the skeleton is rejected.
CreateInvalid(p) ==
    /\ ret = NoRet
    /\ pc[p] = "validate"
    /\ \/ ~headerValid(call[p].o)
       \/ ~BuildLines(call[p].o.lines, 1, <<>>, 0).ok
    /\ CreateReturn(p, [order |-> ZeroOrder, reused |-> FALSE, err |-> ErrInvalidInput])
    /\ UNCHANGED <<store, mu, now, storedFor, tomb, alias, walk>>

\* Lines 57-86: the skeleton is accepted and the candidate built, outside
\* any lock.
CreateBuild(p) ==
    /\ ret = NoRet
    /\ pc[p] = "validate"
    /\ headerValid(call[p].o)
    /\ LET built == BuildLines(call[p].o.lines, 1, <<>>, 0)
       IN  /\ built.ok
           /\ \E id \in newID :
                call' = [call EXCEPT ![p].newOrder = NewOrder(call[p].o, id, now, built)]
    /\ pc' = [pc EXCEPT ![p] = "lock"]
    /\ ret' = NoRet
    /\ UNCHANGED <<store, mu, now, history>>

\* Line 89: s.mu.Lock().
CreateLock(p) ==
    /\ ret = NoRet
    /\ pc[p] = "lock"
    /\ writer = NoProc
    /\ readers = {}
    /\ writer' = p
    /\ call' = [call EXCEPT ![p].locks = @ \cup {"W"}]
    /\ pc' = [pc EXCEPT ![p] = "commit"]
    /\ ret' = NoRet
    /\ UNCHANGED <<store, readers, now, history>>

\* Lines 93-100, 90: the key was indexed meanwhile; the candidate is dropped.
CreateCommitReuse(p) ==
    /\ ret = NoRet
    /\ pc[p] = "commit"
    /\ SlowHit(idempo, call[p].key)
    /\ writer' = NoProc
    /\ CreateReturn(p, Resolve(orders, idempo, call[p].key))
    /\ UNCHANGED <<store, readers, now, storedFor, tomb, alias, walk>>

\* The key registered without the order being stored.
SaveOrdersDropped(ords, o) == ords

\* Lines 104-106: what saving the candidate does to the two maps.
SaveOrders(ords, o) == Put(ords, o.id, o)
SaveIdempo(idx, key, o) == IF key # "" THEN Put(idx, key, o.id) ELSE idx

\* Lines 93, 103-109, 90: the candidate is stored and returned.
CreateCommitSave(p) ==
    /\ ret = NoRet
    /\ pc[p] = "commit"
    /\ ~SlowHit(idempo, call[p].key)
    /\ orders' = SaveOrders(orders, call[p].newOrder)
    /\ idempo' = SaveIdempo(idempo, call[p].key, call[p].newOrder)
    /\ writer' = NoProc
    /\ storedFor' = [storedFor EXCEPT ![call[p].key] = @ \cup {call[p].newOrder.id}]
    /\ CreateReturn(p, [order |-> cloneOrder(call[p].newOrder), reused |-> FALSE,
                        err |-> ErrNone])
    /\ alias' = Put(alias, call[p].newOrder.id,
                     NewOrderRefs(SkelRefs(call[p].o), call[p].newOrder.id))
    /\ UNCHANGED <<readers, now, tomb, walk>>

\* -------------------------------------------------------------------- Get
\* The deleted check left out.
GetResultIgnoreDeleted(ords, id, includeDeleted) ==
    IF id \notin DOMAIN ords THEN [order |-> ZeroOrder, err |-> ErrNotFound]
    ELSE [order |-> cloneOrder(ords[id]), err |-> ErrNone]

\* Lines 123-132.
GetResult(ords, id, includeDeleted) ==
    IF id \notin DOMAIN ords THEN [order |-> ZeroOrder, err |-> ErrNotFound]
    ELSE IF ords[id].deletedAt # Nil /\ ~includeDeleted
         THEN [order |-> ZeroOrder, err |-> ErrNotFound]
         ELSE [order |-> cloneOrder(ords[id]), err |-> ErrNone]

\* Lines 114-116.
GetCancelled(p, ctx) ==
    /\ ret = NoRet
    /\ pc[p] = "idle"
    /\ ctxErr(ctx) # ErrNone
    /\ ret' = Ret(p, "Get", ctx, NoArgs, {}, ZeroOrder, FALSE, ctxErr(ctx), ZeroList)
    /\ UNCHANGED <<store, mu, now, pc, call, history>>

\* Lines 114-132: RLock, the lookup, and the deferred RUnlock.
Get(p, id, includeDeleted, ctx) ==
    /\ ret = NoRet
    /\ pc[p] = "idle"
    /\ ctxErr(ctx) = ErrNone
    /\ writer = NoProc
    /\ LET r == GetResult(orders, id, includeDeleted)
       IN  ret' = Ret(p, "Get", ctx,
                      [NoArgs EXCEPT !.id = id, !.includeDeleted = includeDeleted],
                      {"R"}, r.order, FALSE, r.err, ZeroList)
    /\ UNCHANGED <<store, mu, now, pc, call, history>>

\* Get step by step, the shared lock held from line 119 to the return.
\* Lines 114-116: a live context; the caller goes for the shared lock.
GetStart(p, id, includeDeleted) ==
    /\ ret = NoRet
    /\ pc[p] = "idle"
    /\ call' = [call EXCEPT ![p] = [IdleCall EXCEPT !.id = id,
                                                     !.includeDeleted = includeDeleted]]
    /\ pc' = [pc EXCEPT ![p] = "getLock"]
    /\ ret' = NoRet
    /\ UNCHANGED <<store, mu, now, history>>

\* Line 119: s.mu.RLock().
GetRLock(p) ==
    /\ ret = NoRet
    /\ pc[p] = "getLock"
    /\ writer = NoProc
    /\ readers' = readers \cup {p}
    /\ pc' = [pc EXCEPT ![p] = "getRead"]
    /\ ret' = NoRet
    /\ UNCHANGED <<store, writer, now, call, history>>

\* Lines 123-132, 120: the lookup, and the deferred RUnlock.
GetReturn(p) ==
    /\ ret = NoRet
    /\ pc[p] = "getRead"
    /\ LET r == GetResult(orders, call[p].id, call[p].includeDeleted)
       IN  ret' = Ret(p, "Get", Live,
                      [NoArgs EXCEPT !.id = call[p].id,
                                     !.includeDeleted = call[p].includeDeleted],
                      {"R"}, r.order, FALSE, r.err, ZeroList)
    /\ readers' = readers \ {p}
    /\ pc' = [pc EXCEPT ![p] = "idle"]
    /\ call' = [call EXCEPT ![p] = IdleCall]
    /\ UNCHANGED <<store, writer, now, history>>

\* ------------------------------------------------------------------- List
\* An instant counted as before itself.
BeforeOrAt(t, u) == t <= u

\* time.Time.Before / After.
Before(t, u) == t < u
After(t, u) == t > u

\* The deleted check left out of the filter.
PassesKeepDeleted(order, opts) ==
    /\ ~(opts.Status # Nil /\ order.status # opts.Status[1])
    /\ ~(opts.CustomerID # Nil /\ order.customerId # opts.CustomerID[1])
    /\ ~(opts.CreateFrom # Nil /\ Before(order.createdAt, opts.CreateFrom[1]))
    /\ ~(opts.CreateTo # Nil /\ After(order.createdAt, opts.CreateTo[1]))

\* Lines 151-168: the orders that pass the filter.
Passes(order, opts) ==
    /\ ~(order.deletedAt # Nil)
    /\ ~(opts.Status # Nil /\ order.status # opts.Status[1])
    /\ ~(opts.CustomerID # Nil /\ order.customerId # opts.CustomerID[1])
    /\ ~(opts.CreateFrom # Nil /\ Before(order.createdAt, opts.CreateFrom[1]))
    /\ ~(opts.CreateTo # Nil /\ After(order.createdAt, opts.CreateTo[1]))

FilteredIDs(ords, opts) == {id \in DOMAIN ords : Passes(ords[id], opts)}

\* Line 172: the comparison sort.Slice is given.
Less(a, b) == After(a.createdAt, b.createdAt)

\* Lines 144-173: the map is ranged over in no fixed order and sort.Slice
\* is not stable, so the sorted slice is any arrangement of the filtered
\* orders in which no element is Less than one before it.
SortedSlices(ords, opts) ==
    LET S == FilteredIDs(ords, opts)
        n == Cardinality(S)
    IN  { [i \in 1..n |-> ords[f[i]]] :
            f \in { g \in [1..n -> S] :
                      /\ \A i, j \in 1..n : i # j => g[i] # g[j]
                      /\ \A i, j \in 1..n : i < j => ~Less(ords[g[j]], ords[g[i]]) } }

\* A non-positive page size replaced by 1.
NormPageSizeOne(pageSize) == IF pageSize <= 0 THEN 1 ELSE pageSize

\* Lines 177-182.
NormPage(page) == IF page <= 0 THEN 1 ELSE page
NormPageSize(pageSize) == IF pageSize <= 0 THEN 10 ELSE pageSize

\* Line 187: the result for a page that starts at or after the end.
BeyondResult(totalItems, page, pageSize) ==
    [Items |-> <<>>, Page |-> 0, PageSize |-> 0, TotalItems |-> totalItems, TotalPages |-> 0]

\* Lines 176-206: paginate the sorted slice.
Paginate(filtered, opts) ==
    LET totalItems == Len(filtered)
        page == NormPage(opts.Page)
        pageSize == NormPageSize(opts.PageSize)
        start == (page - 1) * pageSize
        end0 == start + pageSize
        end == IF end0 > totalItems THEN totalItems ELSE end0
    IN  IF start >= totalItems
        THEN BeyondResult(totalItems, page, pageSize)
        ELSE [Items |-> [i \in 1..(end - start) |-> cloneOrder(filtered[start + i])],
              Page |-> page, PageSize |-> pageSize, TotalItems |-> totalItems,
              TotalPages |-> (totalItems + pageSize - 1) \div pageSize]

\* Lines 136-138.
ListCancelled(p, ctx) ==
    /\ ret = NoRet
    /\ pc[p] = "idle"
    /\ ctxErr(ctx) # ErrNone
    /\ ret' = Ret(p, "List", ctx, NoArgs, {}, ZeroOrder, FALSE, ctxErr(ctx), ZeroList)
    /\ UNCHANGED <<store, mu, now, pc, call, history>>

\* Lines 136-206: RLock, filter, sort, paginate, and the deferred RUnlock.
List(p, opts, ctx) ==
    /\ ret = NoRet
    /\ pc[p] = "idle"
    /\ ctxErr(ctx) = ErrNone
    /\ writer = NoProc
    /\ \E filtered \in SortedSlices(orders, opts) :
         ret' = Ret(p, "List", ctx, [NoArgs EXCEPT !.opts = opts],
                    {"R"}, ZeroOrder, FALSE, ErrNone, Paginate(filtered, opts))
    /\ UNCHANGED <<store, mu, now, pc, call, history>>

\* ---------------------------------------------------------- UpdatedStatus
\* Lines 209-211: the method returns Order{}, nil and does nothing else.
UpdatedStatusResult(ords, id, newStatus, expectedVersion, ctx) ==
    [order |-> ZeroOrder, err |-> ErrNone, orders |-> ords]

UpdatedStatus(p, id, newStatus, expectedVersion, ctx) ==
    /\ ret = NoRet
    /\ pc[p] = "idle"
    /\ LET r == UpdatedStatusResult(orders, id, newStatus, expectedVersion, ctx)
       IN  /\ ret' = Ret(p, "UpdatedStatus", ctx,
                         [NoArgs EXCEPT !.id = id, !.newStatus = newStatus,
                                        !.expectedVersion = expectedVersion],
                         {}, r.order, FALSE, r.err, ZeroList)
           /\ orders' = r.orders
    /\ UNCHANGED <<idempo, mu, now, pc, call, history>>

\* ----------------------------------------------------------------- Delete
\* The interface declares Delete; InMemoryService has no such method.  The
\* soft delete described for it: not-found if the id is absent or already
\* deleted, otherwise deletedAt is set to the current time.
DeleteResult(ords, id, t) ==
    IF id \notin DOMAIN ords \/ ords[id].deletedAt # Nil
    THEN [err |-> ErrNotFound, orders |-> ords]
    ELSE [err |-> ErrNone, orders |-> [ords EXCEPT ![id].deletedAt = Ptr(t)]]

DeleteCancelled(p, ctx) ==
    /\ ret = NoRet
    /\ pc[p] = "idle"
    /\ ctxErr(ctx) # ErrNone
    /\ ret' = Ret(p, "Delete", ctx, NoArgs, {}, ZeroOrder, FALSE, ctxErr(ctx), ZeroList)
    /\ UNCHANGED <<store, mu, now, pc, call, history>>

Delete(p, id, ctx) ==
    /\ ret = NoRet
    /\ pc[p] = "idle"
    /\ ctxErr(ctx) = ErrNone
    /\ writer = NoProc
    /\ readers = {}
    /\ LET r == DeleteResult(orders, id, now)
       IN  /\ ret' = Ret(p, "Delete", ctx, [NoArgs EXCEPT !.id = id],
                         {"W"}, ZeroOrder, FALSE, r.err, ZeroList)
           /\ orders' = r.orders
           /\ tomb' = IF r.err = ErrNone THEN tomb \cup {id} ELSE tomb
           /\ alias' = IF r.err = ErrNone
                       THEN [alias EXCEPT ![id].del = <<"Delete.deletedAt", id>>]
                       ELSE alias
    /\ UNCHANGED <<idempo, mu, now, pc, call, fresh, results, storedFor, walk>>

\* ------------------------------------------------------ isTransitionAllowed
\* The status values put to isTransitionAllowed.
StatusValues == Statuses \cup {"", "BOGUS"}

\* isTransitionAllowed is called with the pair at hand.
AskTransition ==
    /\ ~walk.asked
    /\ walk' = [walk EXCEPT !.asked = TRUE,
                            !.allowed = isTransitionAllowed(walk.from, walk.to)]
    /\ UNCHANGED <<store, mu, now, pc, call, ret, fresh, results, storedFor, tomb, alias>>

\* An allowed transition is taken: the target becomes the status at hand,
\* and next is the target asked for after it.
TakeTransition(next) ==
    /\ walk.asked
    /\ walk.allowed
    /\ walk.hops < MaxHops
    /\ walk' = [from |-> walk.to, to |-> next, asked |-> FALSE, allowed |-> FALSE,
                hops |-> walk.hops + 1]
    /\ UNCHANGED <<store, mu, now, pc, call, ret, fresh, results, storedFor, tomb, alias>>

\* ------------------------------------------------------------------ clock
\* The wall clock moves on between any two steps.
Tick ==
    /\ ret = NoRet
    /\ now < MaxClock
    /\ now' = now + 1
    /\ ret' = NoRet
    /\ UNCHANGED <<store, mu, pc, call, history>>

\* The caller takes the result of the call that has just returned.
Deliver ==
    /\ ret # NoRet
    /\ ret' = NoRet
    /\ UNCHANGED <<store, mu, now, pc, call, history>>

\* ----------------------------------------------------------------- caller
\* The orders a returned call handed out (lines 51, 96, 109, 132, 203):
\* each is the result of cloneOrder on a stored order.
ReturnedIDs ==
    IF ret.err # ErrNone THEN {}
    ELSE IF ret.op \in {"Create", "Get"} THEN {ret.order.id}
    ELSE IF ret.op = "List" THEN {ret.list.Items[i].id : i \in 1..Len(ret.list.Items)}
    ELSE {}

\* What the caller of the returned call can write through: its skeleton,
\* and the orders it was handed.
HeldRefs ==
    (IF ret.op = "Create" THEN RefSet(SkelRefs(ret.o)) ELSE {})
    \cup UNION {RefSet(cloneOrderRefs(alias[id], id)) : id \in ReturnedIDs}

\* What the store points to.
StoreRefs == UNION {RefSet(alias[id]) : id \in DOMAIN alias}

\* A write through reference r changes every order that points to it.
Written(o, refs, r) ==
    [o EXCEPT !.lines = IF refs.lines = r
                        THEN [i \in 1..Len(@) |-> [@[i] EXCEPT !.quantity = 0]] ELSE @,
              !.attributes = IF refs.attrs = r THEN MapOf([written |-> "yes"]) ELSE @,
              !.deletedAt = IF refs.del = r THEN Ptr(ZeroTime) ELSE @]

\* The caller takes the result and writes through reference r of it or of
\* the skeleton it passed.
CallerWrites(r) ==
    /\ ret # NoRet
    /\ r \in HeldRefs
    /\ orders' = [id \in DOMAIN orders |-> Written(orders[id], alias[id], r)]
    /\ ret' = NoRet
    /\ UNCHANGED <<idempo, mu, now, pc, call, history>>

\* ---------------------------------------------------------- specification
\* NewInMemoryService(): two empty maps, an unlocked mutex, no call running.
InitService ==
    /\ orders = <<>>
    /\ idempo = <<>>
    /\ readers = {}
    /\ writer = NoProc
    /\ now = 1
    /\ pc = [p \in Procs |-> "idle"]
    /\ call = [p \in Procs |-> IdleCall]
    /\ ret = NoRet
    /\ fresh = [k \in Keys |-> 0]
    /\ results = [k \in Keys |-> {}]
    /\ storedFor = [k \in Keys |-> {}]
    /\ tomb = {}
    /\ alias = <<>>

Init == InitService /\ walk = NoWalk

\* The steps of Create a caller in P can take alone, with skeletons from Sk
\* and contexts from Cx.
CreateSteps(P, Sk, Cx) ==
    \/ \E p \in P, ctx \in Cx : CreateCancelled(p, ctx)
    \/ \E p \in P, o \in Sk, key \in Keys, ctx \in Cx : CreateStart(p, o, key, ctx)
    \/ \E p \in P : CreateRLock(p)
    \/ \E p \in P : CreateFastHit(p)
    \/ \E p \in P : CreateFastMiss(p)
    \/ \E p \in P : CreateInvalid(p)
    \/ \E p \in P : CreateBuild(p)
    \/ \E p \in P : CreateLock(p)
    \/ \E p \in P : CreateCommitSave(p)

\* The step of Create that takes another caller to have committed the key
\* in between.
RaceSteps(P) == \E p \in P : CreateCommitReuse(p)

ReadSteps(P, Cx, Ls) ==
    \/ \E p \in P, ctx \in Cx : GetCancelled(p, ctx)
    \/ \E p \in P, id \in IDs, incl \in BOOLEAN, ctx \in Cx : Get(p, id, incl, ctx)
    \/ \E p \in P, ctx \in Cx : ListCancelled(p, ctx)
    \/ \E p \in P, opts \in Ls, ctx \in Cx : List(p, opts, ctx)

WriteSteps(P, Cx, St, Ev) ==
    \/ \E p \in P, id \in IDs, st \in St, ev \in Ev, ctx \in Cx :
         UpdatedStatus(p, id, st, ev, ctx)
    \/ \E p \in P, ctx \in Cx : DeleteCancelled(p, ctx)
    \/ \E p \in P, id \in IDs, ctx \in Cx : Delete(p, id, ctx)

\* Concurrent callers.
Next ==
    \/ CreateSteps(Procs, Skeletons, CtxStates)
    \/ RaceSteps(Procs)
    \/ ReadSteps(Procs, CtxStates, ListInputs)
    \/ WriteSteps(Procs, CtxStates, StatusInputs, VersionInputs)
    \/ Tick
    \/ Deliver

Spec == Init /\ [][Next]_vars

\* A single caller, with the wider inputs to Create.
NextCreate ==
    \/ CreateSteps({1}, SeqSkeletons, SeqCtxStates)
    \/ ReadSteps({1}, SeqCtxStates, ListInputs)
    \/ WriteSteps({1}, SeqCtxStates, StatusInputs, VersionInputs)
    \/ Tick
    \/ Deliver

SpecCreate == Init /\ [][NextCreate]_vars

\* A single caller, with the wider inputs to List.
NextList ==
    \/ CreateSteps({1}, Skeletons, CtxStates)
    \/ ReadSteps({1}, CtxStates, SeqListInputs)
    \/ WriteSteps({1}, CtxStates, StatusInputs, VersionInputs)
    \/ Tick
    \/ Deliver

SpecList == Init /\ [][NextList]_vars

\* A single caller, with the wider inputs to UpdatedStatus.
NextStatus ==
    \/ CreateSteps({1}, Skeletons, SeqCtxStates)
    \/ ReadSteps({1}, SeqCtxStates, ListInputs)
    \/ WriteSteps({1}, SeqCtxStates, SeqStatusInputs, SeqVersionInputs)
    \/ Tick
    \/ Deliver

SpecStatus == Init /\ [][NextStatus]_vars

\* A single caller, with the wider filters to List.
NextFilter ==
    \/ CreateSteps({1}, Skeletons, CtxStates)
    \/ ReadSteps({1}, CtxStates, FilterInputs)
    \/ WriteSteps({1}, CtxStates, StatusInputs, VersionInputs)
    \/ Tick
    \/ Deliver

SpecFilter == Init /\ [][NextFilter]_vars

\* A single caller that writes to what it passed and to what it was handed.
NextAlias ==
    \/ CreateSteps({1}, Skeletons, CtxStates)
    \/ ReadSteps({1}, CtxStates, ListInputs)
    \/ WriteSteps({1}, CtxStates, StatusInputs, VersionInputs)
    \/ Tick
    \/ Deliver
    \/ \E r \in HeldRefs : CallerWrites(r)

SpecAlias == Init /\ [][NextAlias]_vars

\* isTransitionAllowed put to every pair of status values, and walked along
\* the pairs it allows.
InitTransition ==
    /\ InitService
    /\ walk \in {[NoWalk EXCEPT !.from = f, !.to = t] : f \in StatusValues, t \in StatusValues}

NextTransition ==
    \/ AskTransition
    \/ \E next \in StatusValues : TakeTransition(next)

SpecTransition == InitTransition /\ [][NextTransition]_vars

\* Concurrent callers of Create, Get and Delete, every step of theirs that
\* takes or holds the lock on its own; a call starts only while an id is
\* left for the order it may build.
IDsLeft ==
    Cardinality(TakenIDs \cap IDs)
      + Cardinality({q \in Procs : pc[q] \in {"fastLock", "fastPath", "validate"}}) < MaxIDs

\* sync.RWMutex: once a caller is waiting in Lock, a call to RLock blocks
\* until that caller has had the lock.
RLockFair(p) ==
    /\ \A q \in Procs : pc[q] # "lock"
    /\ (CreateRLock(p) \/ GetRLock(p))

NextLive ==
    \/ \E p \in Procs, ctx \in CtxStates : CreateCancelled(p, ctx)
    \/ \E p \in Procs, o \in {SkelA, SkelBadPrice}, key \in Keys :
         IDsLeft /\ CreateStart(p, o, key, Live)
    \/ \E p \in Procs : RLockFair(p)
    \/ \E p \in Procs : CreateFastHit(p)
    \/ \E p \in Procs : CreateFastMiss(p)
    \/ \E p \in Procs : CreateInvalid(p)
    \/ \E p \in Procs : CreateBuild(p)
    \/ \E p \in Procs : CreateLock(p)
    \/ \E p \in Procs : CreateCommitReuse(p)
    \/ \E p \in Procs : CreateCommitSave(p)
    \/ \E p \in Procs, id \in IDs : GetStart(p, id, TRUE)
    \/ \E p \in Procs : GetReturn(p)
    \/ \E p \in Procs, id \in IDs : Delete(p, id, Live)
    \/ Deliver

\* The steps a caller inside a call takes next; where it stands decides
\* which one.
CallStep(p) ==
    \/ RLockFair(p)
    \/ CreateFastHit(p)
    \/ CreateFastMiss(p)
    \/ CreateInvalid(p)
    \/ CreateBuild(p)
    \/ CreateLock(p)
    \/ CreateCommitReuse(p)
    \/ CreateCommitSave(p)
    \/ GetReturn(p)

\* The scheduler runs every caller that can take a step, and the lock is
\* fair: a caller waiting for it gets it once it is free often enough.
Fairness ==
    /\ WF_vars(Deliver)
    /\ \A p \in Procs : SF_vars(CallStep(p))

SpecLive == Init /\ [][NextLive]_vars /\ Fairness

\* ================================================================ claims
\* What the claims call a valid order skeleton.
ValidSkeleton(o) ==
    /\ o.customerId # ""
    /\ o.currency # ""
    /\ Len(o.lines) > 0
    /\ \A i \in 1..Len(o.lines) : o.lines[i].quantity > 0 /\ o.lines[i].unitPriceCents >= 0

\* A call of op returns in this state, having been made with a live context.
Returned(op) == ret.op = op /\ ret.ctx = Live

IdemKeys == Keys \ {""}

\* C1: concurrent Create calls with one non-empty idempotency key store
\* exactly one order for it, exactly one of them returns reused=false, a
\* call with a valid skeleton does not fail, and all of them return the
\* same id, lines, total, status and version.
C1_IdempotentCreate ==
    \A k \in IdemKeys :
        /\ Cardinality(storedFor[k]) <= 1
        /\ fresh[k] <= 1
        /\ Cardinality(results[k]) <= 1
        /\ results[k] # {} =>
              /\ fresh[k] = 1
              /\ storedFor[k] = {c.id : c \in results[k]}
        /\ (Returned("Create") /\ ret.key = k /\ ValidSkeleton(ret.o)) =>
              /\ ret.err = ErrNone
              /\ results[k] = {Content(ret.order)}

\* C1 witness: a call that missed in the shared-lock check lost the race and
\* returns the winner's order after the re-check under the exclusive lock.
C1_Witness ==
    /\ Returned("Create")
    /\ ret.key = "k1"
    /\ ret.reused
    /\ ret.locks = {"R", "W"}
    /\ fresh["k1"] = 1

\* C2: every key of the idempotency index maps to an order id that is in
\* the order table, and no Create call returns ErrIdempotency.
C2_IndexResolves ==
    /\ \A k \in DOMAIN idempo : idempo[k] \in DOMAIN orders
    /\ ret.op = "Create" => ret.err # ErrIdempotency

\* C2 witness: the index is read for a key whose order has been deleted since.
C2_Witness ==
    /\ Returned("Create")
    /\ ret.err = ErrNone
    /\ ret.reused
    /\ ret.order.deletedAt # Nil
    /\ idempo[ret.key] = ret.order.id

\* The transitions the state machine allows.
AllowedEdges ==
    { <<StatusPending, StatusConfirmed>>, <<StatusPending, StatusCanceled>>,
      <<StatusConfirmed, StatusShipped>>, <<StatusConfirmed, StatusCanceled>>,
      <<StatusShipped, StatusDelivered>> }

\* An UpdatedStatus call on a stored, not deleted order with a recognized
\* target status returns in this step.
StatusCallReturns ==
    /\ ret'.op = "UpdatedStatus"
    /\ ret'.ctx = Live
    /\ ret'.id \in DOMAIN orders
    /\ orders[ret'.id].deletedAt = Nil
    /\ ret'.newStatus \in Statuses

\* C3: an accepted UpdatedStatus call leaves the stored version one higher,
\* and a call whose expected version differs from the current one fails
\* with Conflict and leaves version and status as they were.
C3_VersionMonotonic ==
    [][ StatusCallReturns =>
          LET old == orders[ret'.id]
              new == orders'[ret'.id]
              ev == ret'.expectedVersion
          IN  /\ ret'.err = ErrNone => new.version = old.version + 1
              /\ (ev # Nil /\ ev[1] # old.version) =>
                    /\ ret'.err = ErrConflict
                    /\ new.version = old.version
                    /\ new.status = old.status ]_vars

\* C4: an UpdatedStatus call for a pair (current status, target status) that
\* is no allowed edge fails with InvalidState and leaves the stored order
\* as it was.
C4_StateMachineClosure ==
    [][ ( /\ StatusCallReturns
          /\ ret'.expectedVersion \in {Nil, Ptr(orders[ret'.id].version)}
          /\ <<orders[ret'.id].status, ret'.newStatus>> \notin AllowedEdges ) =>
          /\ ret'.err = ErrInvalidState
          /\ orders'[ret'.id] = orders[ret'.id] ]_vars

\* C5: once Delete has succeeded on an id, Get without includeDeleted fails
\* with NotFound for it, Get with includeDeleted returns it, and no List
\* call returns it.
C5_SoftDeleteVisibility ==
    \A id \in tomb :
        /\ (Returned("Get") /\ ret.id = id) =>
              IF ret.includeDeleted
              THEN ret.err = ErrNone /\ ret.order.id = id /\ ret.order.deletedAt # Nil
              ELSE ret.err = ErrNotFound
        /\ Returned("List") =>
              \A i \in 1..Len(ret.list.Items) : ret.list.Items[i].id # id

\* C5 witness: List returns an order while another one is deleted.
C5_Witness ==
    /\ Returned("List")
    /\ tomb # {}
    /\ Len(ret.list.Items) > 0

RECURSIVE SumLineTotals(_)
SumLineTotals(lines) ==
    IF lines = <<>> THEN 0 ELSE Head(lines).lineTotalCents + SumLineTotals(Tail(lines))

\* C6: every stored order's total is the sum of its line totals, and every
\* line total is quantity times unit price.
C6_DerivedTotals ==
    \A id \in DOMAIN orders :
        LET o == orders[id]
        IN  /\ o.totalCents = SumLineTotals(o.lines)
            /\ \A i \in 1..Len(o.lines) :
                  o.lines[i].lineTotalCents = o.lines[i].quantity * o.lines[i].unitPriceCents

\* C6 witness: an order is stored whose skeleton carried another total and
\* other line totals.
C6_Witness ==
    /\ Returned("Create")
    /\ ret.err = ErrNone
    /\ ~ret.reused
    /\ ret.order.id \in DOMAIN orders
    /\ Len(ret.o.lines) = 2
    /\ ret.o.totalCents # orders[ret.order.id].totalCents
    /\ \A i \in 1..2 : ret.o.lines[i].lineTotalCents # orders[ret.order.id].lines[i].lineTotalCents

\* C7: a Create call with an invalid skeleton and a key that is not indexed
\* fails with InvalidInput, has not taken the exclusive lock, and leaves the
\* order table and the index as they were.
C7_InvalidRejected ==
    [][ ( /\ ret'.op = "Create"
          /\ ret'.ctx = Live
          /\ ~ValidSkeleton(ret'.o)
          /\ ret'.key \notin DOMAIN idempo ) =>
          /\ ret'.err = ErrInvalidInput
          /\ "W" \notin ret'.locks
          /\ writer' = writer
          /\ orders' = orders
          /\ idempo' = idempo ]_vars

\* C7 witness: a call with a key and a bad second line is rejected after
\* the shared-lock check.
C7_Witness ==
    /\ Returned("Create")
    /\ ret.err = ErrInvalidInput
    /\ ret.key = "k1"
    /\ ret.locks = {"R"}
    /\ Len(ret.o.lines) = 2
    /\ "k1" \notin DOMAIN idempo

\* C8: a call of any operation with a cancelled or expired context returns
\* the context's error, takes the lock in no mode, and leaves the order
\* table and the index as they were.
C8_CancelledFailsFast ==
    [][ (ret' # NoRet /\ ret'.ctx # Live) =>
          /\ ret'.err = ret'.ctx
          /\ ret'.locks = {}
          /\ UNCHANGED <<orders, idempo, readers, writer>> ]_vars

\* C9: Get with a live context returns the stored order when the id is in
\* the table and the order is not deleted or includeDeleted is set, and
\* NotFound otherwise; the store is unchanged.
C9_GetResult ==
    [][ (ret'.op = "Get" /\ ret'.ctx = Live) =>
          /\ IF /\ ret'.id \in DOMAIN orders
                /\ (orders[ret'.id].deletedAt = Nil \/ ret'.includeDeleted)
             THEN ret'.err = ErrNone /\ ret'.order = orders[ret'.id]
             ELSE ret'.err = ErrNotFound
          /\ orders' = orders
          /\ idempo' = idempo ]_vars

\* C9 witness: Get with includeDeleted returns a deleted order.
C9_Witness ==
    /\ Returned("Get")
    /\ ret.err = ErrNone
    /\ ret.includeDeleted
    /\ ret.order.deletedAt # Nil

\* The stored orders List counts for the given options.
Matching(opts) ==
    { id \in DOMAIN orders :
        /\ orders[id].deletedAt = Nil
        /\ opts.Status = Nil \/ orders[id].status = opts.Status[1]
        /\ opts.CustomerID = Nil \/ orders[id].customerId = opts.CustomerID[1]
        /\ opts.CreateFrom = Nil \/ orders[id].createdAt >= opts.CreateFrom[1]
        /\ opts.CreateTo = Nil \/ orders[id].createdAt <= opts.CreateTo[1] }

CeilDiv(a, b) == IF a % b = 0 THEN a \div b ELSE (a \div b) + 1

\* C10: List for a page that starts at or after the end of the filtered
\* orders returns no error, no items, the number of filtered orders, the
\* number of pages, and the normalized page and page size.
C10_PageBeyondRange ==
    Returned("List") =>
        LET page == IF ret.opts.Page <= 0 THEN 1 ELSE ret.opts.Page
            size == IF ret.opts.PageSize <= 0 THEN 10 ELSE ret.opts.PageSize
            total == Cardinality(Matching(ret.opts))
        IN  (page - 1) * size >= total =>
              /\ ret.err = ErrNone
              /\ ret.list.Items = <<>>
              /\ ret.list.TotalItems = total
              /\ ret.list.TotalPages = CeilDiv(total, size)
              /\ ret.list.Page = page
              /\ ret.list.PageSize = size

\* C11: the items List returns are in descending order of createdAt, and
\* items with equal createdAt are in ascending order of id.
C11_SortedTieBreak ==
    Returned("List") =>
        \A i \in 1..(Len(ret.list.Items) - 1) :
            LET a == ret.list.Items[i]
                b == ret.list.Items[i + 1]
            IN  \/ a.createdAt > b.createdAt
                \/ a.createdAt = b.createdAt /\ a.id < b.id

\* The ids of the orders a List call returned.
ItemIDs == {ret.list.Items[i].id : i \in 1..Len(ret.list.Items)}

\* C12: the orders List counts and pages over are the stored orders that
\* are not deleted, have the status and the customer asked for, and were
\* created within the bounds asked for, both bounds included.
C12_FilterSet ==
    Returned("List") =>
        LET page == IF ret.opts.Page <= 0 THEN 1 ELSE ret.opts.Page
            size == IF ret.opts.PageSize <= 0 THEN 10 ELSE ret.opts.PageSize
            M == Matching(ret.opts)
        IN  /\ ret.err = ErrNone
            /\ ret.list.TotalItems = Cardinality(M)
            /\ ItemIDs \subseteq M
            /\ (page = 1 /\ Cardinality(M) <= size) => ItemIDs = M

\* C12 witness: List returns an order created at the lower bound, and one
\* created at the upper bound.
C12_Witness ==
    /\ Returned("List")
    /\ ret.opts.CreateFrom = Ptr(2)
    /\ ret.opts.CreateTo = Ptr(2)
    /\ ret.opts.Status # Nil
    /\ ret.opts.CustomerID # Nil
    /\ Len(ret.list.Items) = 1
    /\ ret.list.Items[1].createdAt = 2
    /\ Cardinality(DOMAIN orders) = 2

\* The stored orders matching opts created after t, and those created at t
\* or after.
NewerThan(opts, t) == {id \in Matching(opts) : orders[id].createdAt > t}
NotOlderThan(opts, t) == {id \in Matching(opts) : orders[id].createdAt >= t}

\* C13: List takes a non-positive page for 1 and a non-positive page size
\* for 10; for a page that starts before the end it returns the orders at
\* positions (page-1)*pageSize+1 .. min(page*pageSize, totalItems) of the
\* filtered orders in descending order of createdAt, and the number of
\* pages, the page and the page size.
C13_PageSlice ==
    Returned("List") =>
        LET page == IF ret.opts.Page <= 0 THEN 1 ELSE ret.opts.Page
            size == IF ret.opts.PageSize <= 0 THEN 10 ELSE ret.opts.PageSize
            total == Cardinality(Matching(ret.opts))
            start == (page - 1) * size
            end == IF page * size < total THEN page * size ELSE total
            items == ret.list.Items
        IN  start < total =>
              /\ ret.err = ErrNone
              /\ ret.list.Page = page
              /\ ret.list.PageSize = size
              /\ ret.list.TotalItems = total
              /\ ret.list.TotalPages = CeilDiv(total, size)
              /\ Len(items) = end - start
              /\ \A i, j \in 1..Len(items) : i # j => items[i].id # items[j].id
              /\ \A i \in 1..Len(items) :
                    /\ items[i].id \in Matching(ret.opts)
                    /\ items[i] = orders[items[i].id]
                    /\ Cardinality(NewerThan(ret.opts, items[i].createdAt)) <= start + i - 1
                    /\ Cardinality(NotOlderThan(ret.opts, items[i].createdAt)) >= start + i

\* C13 witness: of two orders created at different times, page 2 of size 1
\* is the older one, and there are two pages.
C13_Witness ==
    /\ Returned("List")
    /\ ret.opts.Page = 2
    /\ ret.opts.PageSize = 1
    /\ Len(ret.list.Items) = 1
    /\ ret.list.TotalPages = 2
    /\ \E id \in DOMAIN orders : orders[id].createdAt > ret.list.Items[1].createdAt

\* C14: what Create, Get and List hand out, and the skeleton passed to
\* Create, share no slice, map or pointer with the store, so whatever the
\* caller writes to them leaves the stored orders and the index as they
\* were.
C14_NoSharedStructure ==
    [][ /\ (HeldRefs \cap StoreRefs = {})'
        /\ (ret # NoRet /\ ret' = NoRet) => (orders' = orders /\ idempo' = idempo) ]_vars

\* C14 witness: an order with attributes, made from a skeleton with
\* attributes, has been deleted and is handed out by Get.
C14_Witness ==
    /\ Returned("Get")
    /\ ret.err = ErrNone
    /\ ~ret.order.attributes.isNil
    /\ ret.order.deletedAt # Nil
    /\ Cardinality(HeldRefs) = 3
    /\ Cardinality(StoreRefs) >= 3

\* The existing order is returned as reused, and the store is as it was.
ReturnsExisting(key) ==
    /\ ret'.op = "Create"
    /\ ret'.key = key
    /\ ret'.err = ErrNone
    /\ ret'.reused
    /\ ret'.order = orders[idempo[key]]
    /\ orders' = orders
    /\ idempo' = idempo

\* C15: a Create call that finds its key indexed in the shared-lock check
\* returns the existing order as reused, never takes the exclusive lock and
\* changes nothing; one that finds it indexed at the re-check under the
\* exclusive lock drops its candidate, stores nothing and returns the
\* existing order as reused.
C15_ReusePaths ==
    [][ \A p \in Procs :
          /\ (pc[p] = "fastPath" /\ pc'[p] # "fastPath" /\ call[p].key \in DOMAIN idempo) =>
                /\ ReturnsExisting(call[p].key)
                /\ ret'.locks = {"R"}
                /\ writer' = writer
                /\ p \notin readers'
          /\ (pc[p] = "commit" /\ pc'[p] # "commit" /\ call[p].key \in DOMAIN idempo) =>
                /\ ReturnsExisting(call[p].key)
                /\ call[p].newOrder.id \notin DOMAIN orders'
                /\ ret'.order.id # call[p].newOrder.id
                /\ writer' = NoProc ]_vars

\* C15 witness: a call drops a candidate built from another skeleton than
\* the existing order's and returns the existing order.
C15_Witness ==
    /\ Returned("Create")
    /\ ret.reused
    /\ "W" \in ret.locks
    /\ ValidSkeleton(ret.o)
    /\ ret.o.customerId # ret.order.customerId
    /\ Cardinality(DOMAIN orders) = 1

\* C16: every call returns in the end, a caller that has returned holds the
\* lock in no mode, and no caller asks for the exclusive lock while it
\* holds the shared one.
C16_Terminates ==
    /\ [](\A p \in Procs : pc[p] = "idle" => (p \notin readers /\ writer # p))
    /\ [](\A p \in Procs : pc[p] = "lock" => p \notin readers)
    /\ \A p \in Procs : (pc[p] # "idle") ~> (pc[p] = "idle")

\* C16 witness: a caller waits for the exclusive lock while another holds
\* the shared one.
C16_Witness ==
    \E p, q \in Procs :
        /\ pc[p] = "lock"
        /\ q \in readers
        /\ p # q

\* C17: a Create call that returns reused=false has stored the order it
\* returns, with status PENDING, version 1, createdAt equal to updatedAt and
\* no deletedAt; every stored order has a version of at least 1.
C17_FreshOrder ==
    /\ \A id \in DOMAIN orders : orders[id].version >= 1
    /\ (Returned("Create") /\ ret.err = ErrNone /\ ~ret.reused) =>
          /\ ret.order.id \in DOMAIN orders
          /\ orders[ret.order.id] = ret.order
          /\ ret.order.status = StatusPending
          /\ ret.order.version = 1
          /\ ret.order.createdAt = ret.order.updatedAt
          /\ ret.order.deletedAt = Nil

\* C17 witness: a second order is stored, at a later time than the first.
C17_Witness ==
    /\ Returned("Create")
    /\ ret.err = ErrNone
    /\ ~ret.reused
    /\ \E id \in DOMAIN orders : orders[id].createdAt < ret.order.createdAt

\* C18: once the order created with key k has been deleted, k still maps
\* to its id, no other order is stored for k, and a Create call with k
\* returns the deleted order as reused.
C18_DeleteKeepsKey ==
    \A k \in IdemKeys : \A id \in tomb :
        id \in storedFor[k] =>
            /\ k \in DOMAIN idempo
            /\ idempo[k] = id
            /\ storedFor[k] = {id}
            /\ (Returned("Create") /\ ret.key = k) =>
                  /\ ret.err = ErrNone
                  /\ ret.reused
                  /\ ret.order.id = id
                  /\ ret.order.deletedAt # Nil

\* C18 witness: Create with the key of the only order, which is deleted,
\* returns it and stores nothing.
C18_Witness ==
    /\ Returned("Create")
    /\ ret.key = "k1"
    /\ ret.reused
    /\ ret.order.id \in tomb
    /\ DOMAIN orders = {ret.order.id}

\* C20: a bound key stays bound to its order id; a Create call with a bound
\* key returns the bound order as reused whatever its skeleton and changes
\* nothing; a Create call with the empty key takes no shared lock, leaves
\* the index alone, and adds exactly one order when it succeeds.
C20_KeyBinding ==
    [][ /\ \A k \in DOMAIN idempo : k \in DOMAIN idempo' /\ idempo'[k] = idempo[k]
        /\ (ret'.op = "Create" /\ ret'.ctx = Live /\ ret'.key \in DOMAIN idempo) =>
              /\ ret'.err = ErrNone
              /\ ret'.reused
              /\ ret'.order = orders[idempo[ret'.key]]
              /\ orders' = orders
              /\ idempo' = idempo
        /\ (ret'.op = "Create" /\ ret'.ctx = Live /\ ret'.key = "") =>
              /\ idempo' = idempo
              /\ "R" \notin ret'.locks
              /\ ~ret'.reused
              /\ IF ret'.err = ErrNone
                 THEN /\ ret'.order.id \notin DOMAIN orders
                      /\ DOMAIN orders' = DOMAIN orders \cup {ret'.order.id}
                      /\ \A id \in DOMAIN orders : orders'[id] = orders[id]
                 ELSE orders' = orders ]_vars

\* C20 witness: a call with a bound key and a skeleton that would fail
\* validation returns the bound order.
C20_Witness ==
    /\ Returned("Create")
    /\ ret.reused
    /\ ~ValidSkeleton(ret.o)
    /\ ret.key \in DOMAIN idempo
    /\ ret.locks = {"R"}

\* C19: isTransitionAllowed answers true for the five allowed edges and
\* false for every other pair of status values, and no walk along the
\* pairs it allows takes more than three transitions.
C19_TransitionTable ==
    /\ walk.asked => (walk.allowed <=> <<walk.from, walk.to>> \in AllowedEdges)
    /\ (walk.asked /\ walk.from \in {StatusDelivered, StatusCanceled}) => ~walk.allowed
    /\ walk.hops <= 3

\* C19 witness: after three transitions the status is DELIVERED, and no
\* transition from it is allowed.
C19_Witness ==
    /\ walk.hops = 3
    /\ walk.from = StatusDelivered
    /\ walk.asked
    /\ ~walk.allowed

====
